---- MODULE Spec2Model ----
(***************************************************************************)
(* Model of the date filtering strategies of sio_postdoc:                  *)
(*   NamesByDate.apply   (engine/filtering/strategies.py, lines 30-60)     *)
(*   IndicesByDate.apply (engine/filtering/strategies.py, lines 66-183)    *)
(* and of the day loops of ObservationManager                              *)
(* (manager/observation/service.py):                                       *)
(*   create_daily_masks (788-893), merge_daily_masks (895-1165),           *)
(*   extract_daily_extents (1166-1275).                                    *)
(*                                                                         *)
(* Time is counted in slots: a calendar day is SlotsPerDay slots long and  *)
(* day d covers the slots d*SlotsPerDay .. (d+1)*SlotsPerDay - 1.          *)
(***************************************************************************)
EXTENDS Integers, Sequences, FiniteSets, TLC

\* ------------------------------------------------------------------ bounds
\* Slots in a calendar day.
SlotsPerDay == 2
\* Names given to one NamesByDate.apply call.
MaxLen == 4
\* Records given to one IndicesByDate.apply call.
MaxRecords == 2
\* Samples in the records of one IndicesByDate.apply call, taken together.
MaxSamples == 3
\* Days of the month a day loop of the observation manager goes through.
MaxDays == 2
\* Time rows of the record hydrated for one day of a day loop.
MaxRows == 2
\* Length in seconds of the day merge_daily_masks lays its time grid over
\* (SECONDS_PER_DAY, 86400, in the program).
DaySeconds == 30
\* Time samples of the lidar mask given to merge_daily_masks.
MaxLidar == 5
\* Elevations of the merged grid given to extract_daily_extents.
MaxColumns == 9

\* The calendar days of the modelled timeline and its timestamps.
Days == 0 .. 2
Times == 0 .. (3 * SlotsPerDay - 1)

\* A blob name is a prefix followed by its timestamp field, e.g.
\* "eurmmcrmerge.C1.c1." + "D2008-09-21T00-00-00"; prefixes are ordered as
\* the strings they stand for.
Prefixes == {1, 2}
Names == [prefix : Prefixes, ts : Times]

\* The empty string "" that previous_entry starts with.
EmptyName == [prefix |-> 0, ts |-> 0]

VARIABLES
    target,          \* the target date (a day number)
    pc,              \* position in the running apply()
    content,         \* NamesByDate.apply: the input names
    idx,             \* NamesByDate.apply: position of the for loop
    results,         \* NamesByDate.apply: the results list
    previous_entry,  \* NamesByDate.apply: the last entry before the window
    returned,        \* NamesByDate.apply: the tuple returned
    utcoffset,       \* IndicesByDate.apply: local time minus UTC, in slots
    records,         \* IndicesByDate.apply: the input InstrumentData tuple
    masks,           \* IndicesByDate.apply: one mask per record
    var_values,      \* IndicesByDate.apply: the values collected per name
    ridx,            \* IndicesByDate.apply: position of the second loop
    new_data,        \* IndicesByDate.apply: what the call returned
    printed,         \* day loops: the days printed, one per loop iteration
    day_data,        \* day loops: the InstrumentData hydrated for the day
    row,             \* merge, extents: position of the loop over time rows
    col,             \* merge: position of the loop over elevations
    mask_grid,       \* merge: the list of rows `mask` of the merged grid
    result,          \* extents: the VerticalLayers of the day so far
    local_file,      \* day loops: the file serialize wrote (None: no file)
    stored           \* day loops: the days whose blob add_blob has stored

namesVars == <<content, idx, results, previous_entry, returned>>
indicesVars == <<utcoffset, records, masks, var_values, ridx, new_data>>
serviceVars == <<printed, day_data, row, col, mask_grid, result,
                 local_file, stored>>
vars == <<target, pc, content, idx, results, previous_entry, returned,
          utcoffset, records, masks, var_values, ridx, new_data,
          printed, day_data, row, col, mask_grid, result, local_file, stored>>

\* ------------------------------------------------------------ pure helpers
\* utility.extract_datetime(entry).datetime: the timestamp field of the name.
extract_datetime(entry) == entry.ts

\* DateTime(year, month, day, 0, 0, 0).datetime of the target date.
start == target * SlotsPerDay

\* start + timedelta(days=1)
end == start + SlotsPerDay

\* Python's str comparison x <= y of two names: character by character, so
\* the prefix decides before the timestamp field does.
StrLeq(x, y) ==
    \/ x.prefix < y.prefix
    \/ x.prefix = y.prefix /\ x.ts <= y.ts

\* Insert one name into a list kept sorted by StrLeq.
RECURSIVE Insert(_, _)
Insert(x, s) ==
    IF s = <<>> THEN <<x>>
    ELSE IF StrLeq(x, Head(s)) THEN <<x>> \o s
    ELSE <<Head(s)>> \o Insert(x, Tail(s))

\* sorted(results): the names in ascending string order.
RECURSIVE sorted(_)
sorted(s) ==
    IF s = <<>> THEN <<>> ELSE Insert(Head(s), sorted(Tail(s)))

\* The inputs: sequences of names ascending by timestamp, up to n long.
RECURSIVE SortedContents(_)
SortedContents(n) ==
    IF n = 0 THEN {<<>>}
    ELSE LET shorter == SortedContents(n - 1)
         IN  shorter \cup
             UNION { { Append(s, e) :
                         e \in {x \in Names :
                                  Len(s) = 0 \/ s[Len(s)].ts <= x.ts} } :
                     s \in {p \in shorter : Len(p) = n - 1} }

\* Python's None.
NoData == [kind |-> "None"]

\* The variables of the day loops of the observation manager, while none runs.
ServiceIdle ==
    /\ printed = <<>>
    /\ day_data = NoData
    /\ row = 0
    /\ col = 0
    /\ mask_grid = <<>>
    /\ result = <<>>
    /\ local_file = NoData
    /\ stored = {}

\* --------------------------------------------------------- NamesByDate.apply
InitNames ==
    /\ target \in Days
    /\ content \in SortedContents(MaxLen)
    /\ pc = "loop"
    /\ idx = 1
    /\ results = <<>>
    /\ previous_entry = EmptyName
    /\ returned = <<>>
    /\ utcoffset = 0
    /\ records = <<>>
    /\ masks = <<>>
    /\ var_values = <<>>
    /\ ridx = 0
    /\ new_data = [kind |-> "unset"]
    /\ ServiceIdle

\* The entry the for loop is at, and its timestamp.
entry == content[idx]
current == extract_datetime(entry)

InLoop == pc = "loop" /\ idx <= Len(content)

\* AtStart with a slip: a name already in the results is not appended again.
AtStart_Dedup ==
    /\ InLoop
    /\ current = start
    /\ results' = IF \E k \in 1 .. Len(results) : results[k] = entry
                  THEN results
                  ELSE Append(results, entry)
    /\ idx' = idx + 1
    /\ UNCHANGED <<target, pc, content, previous_entry, returned,
                 indicesVars, serviceVars>>

\* if current == start: results.append(entry)
AtStart ==
    /\ InLoop
    /\ current = start
    /\ results' = Append(results, entry)
    /\ idx' = idx + 1
    /\ UNCHANGED <<target, pc, content, previous_entry, returned,
                 indicesVars, serviceVars>>

\* Inside with a slip: the carry-over no longer tests `not results`.
Inside_AlwaysCarry ==
    /\ InLoop
    /\ start < current /\ current < end
    /\ results' = IF previous_entry # EmptyName
                  THEN results \o <<previous_entry, entry>>
                  ELSE Append(results, entry)
    /\ idx' = idx + 1
    /\ UNCHANGED <<target, pc, content, previous_entry, returned,
                 indicesVars, serviceVars>>

\* elif start < current < end: the carry-over, then results.append(entry)
Inside ==
    /\ InLoop
    /\ start < current /\ current < end
    /\ results' = IF results = <<>> /\ previous_entry # EmptyName
                  THEN <<previous_entry, entry>>
                  ELSE Append(results, entry)
    /\ idx' = idx + 1
    /\ UNCHANGED <<target, pc, content, previous_entry, returned,
                 indicesVars, serviceVars>>

\* AtEnd with a slip: the entry at day_end is treated like one after it.
AtEnd_Append ==
    /\ InLoop
    /\ current = end
    /\ results' = IF results # <<>> THEN Append(results, entry) ELSE results
    /\ pc' = "return"
    /\ UNCHANGED <<target, content, idx, previous_entry, returned,
                 indicesVars, serviceVars>>

\* AtEnd with a slip: the break is missing, the scan goes on.
AtEnd_NoBreak ==
    /\ InLoop
    /\ current = end
    /\ idx' = idx + 1
    /\ UNCHANGED <<target, pc, content, results, previous_entry, returned,
                 indicesVars, serviceVars>>

\* elif current == end: break
AtEnd ==
    /\ InLoop
    /\ current = end
    /\ pc' = "return"
    /\ UNCHANGED <<target, content, idx, results, previous_entry, returned,
                 indicesVars, serviceVars>>

\* PastEnd with a slip: the break is missing, the scan goes on.
PastEnd_NoBreak ==
    /\ InLoop
    /\ current > end
    /\ results' = IF results # <<>> THEN Append(results, entry) ELSE results
    /\ idx' = idx + 1
    /\ UNCHANGED <<target, pc, content, previous_entry, returned,
                 indicesVars, serviceVars>>

\* elif current > end: append the entry if there are results, then break
PastEnd ==
    /\ InLoop
    /\ current > end
    /\ results' = IF results # <<>> THEN Append(results, entry) ELSE results
    /\ pc' = "return"
    /\ UNCHANGED <<target, content, idx, previous_entry, returned,
                 indicesVars, serviceVars>>

\* else: previous_entry = entry
Before ==
    /\ InLoop
    /\ current < start
    /\ previous_entry' = entry
    /\ idx' = idx + 1
    /\ UNCHANGED <<target, pc, content, results, returned,
                 indicesVars, serviceVars>>

\* return tuple(sorted(results)), after a break or the end of the input
ReturnNames ==
    /\ \/ pc = "return"
       \/ pc = "loop" /\ idx > Len(content)
    /\ returned' = sorted(results)
    /\ pc' = "done"
    /\ UNCHANGED <<target, content, idx, results, previous_entry,
                 indicesVars, serviceVars>>

NextNames ==
    \/ AtStart
    \/ Inside
    \/ AtEnd
    \/ PastEnd
    \/ Before
    \/ ReturnNames

SpecNames == InitNames /\ [][NextNames]_vars

\* ------------------------------------------- properties of NamesByDate.apply
\* The positions of a sequence of names whose timestamp satisfies a test.
Early(s) == {k \in 1 .. Len(s) : s[k].ts < start}
InWindow(s) == {k \in 1 .. Len(s) : start <= s[k].ts /\ s[k].ts < end}
Late(s) == {k \in 1 .. Len(s) : s[k].ts > end}
OnEnd(s) == {k \in 1 .. Len(s) : s[k].ts = end}

\* How often a name occurs in a sequence.
Occurrences(s, e) == Cardinality({k \in 1 .. Len(s) : s[k] = e})

\* Two sequences hold the same names with the same multiplicities.
SameNames(s, t) ==
    /\ Len(s) = Len(t)
    /\ \A k \in 1 .. Len(s) : Occurrences(s, s[k]) = Occurrences(t, s[k])

Done == pc = "done"

\* C1 as stated: every returned entry lies in [day_start, day_end), except
\* for at most one entry before day_start (the leading carry-over); no entry
\* after day_end is returned.  The position of the carry-over in the tuple is
\* left open here, so that only a trailing entry can violate the statement.
C1_OnlyLeadingCarryOver ==
    Done =>
        /\ Cardinality(Early(returned)) <= 1
        /\ \A k \in 1 .. Len(returned) :
              k \in InWindow(returned) \/ k \in Early(returned)

\* C1 amended: every returned entry lies in [day_start, day_end), except for
\* at most one entry before day_start and at most one entry after day_end
\* (the first input entry past day_end, taken only when the result is not
\* empty by then); no returned entry has the timestamp day_end.
C1_CarryOverBothSides ==
    Done =>
        /\ Cardinality(Early(returned)) <= 1
        /\ Cardinality(Late(returned)) <= 1
        /\ OnEnd(returned) = {}
        /\ Late(returned) # {} =>
              /\ Len(returned) >= 2
              /\ \E k \in 1 .. Len(content) :
                    /\ content[k].ts > end
                    /\ \A j \in 1 .. (k - 1) : content[j].ts < end
                    /\ \A m \in Late(returned) : returned[m] = content[k]

\* A run that returned a carry-over on both sides of the window.
C1_Witness ==
    /\ Done
    /\ Early(returned) # {}
    /\ InWindow(returned) # {}
    /\ Late(returned) # {}

\* C2: every input entry of [day_start, day_end) is returned with its input
\* multiplicity, and the returned entries are those of one contiguous run of
\* the input.
C2_AllOfWindowContiguous ==
    Done =>
        /\ \A k \in InWindow(content) :
              Occurrences(returned, content[k]) = Occurrences(content, content[k])
        /\ \E i \in 1 .. (Len(content) + 1) : \E j \in (i - 1) .. Len(content) :
              SameNames(returned, SubSeq(content, i, j))

\* Two input entries share the timestamp day_start and both are returned,
\* together with a later entry of the window.
C2_Witness ==
    /\ Done
    /\ \E i, j \in 1 .. Len(content) :
          /\ i < j
          /\ content[i] = content[j]
          /\ content[i].ts = start
          /\ Occurrences(returned, content[i]) >= 2
    /\ \E k \in InWindow(returned) : returned[k].ts > start

\* The position of the first input entry at or after day_start (0: none).
FirstFromStart ==
    IF \E k \in 1 .. Len(content) : content[k].ts >= start
    THEN CHOOSE k \in 1 .. Len(content) :
            /\ content[k].ts >= start
            /\ \A j \in 1 .. (k - 1) : content[j].ts < start
    ELSE 0

\* C3: when the first entry from day_start on lies strictly inside the window
\* and has a predecessor, that predecessor is the one returned entry before
\* day_start; when an entry at day_start comes first, none is returned.
C3_CarryOverRule ==
    Done =>
        LET f == FirstFromStart IN
        /\ (f > 1 /\ start < content[f].ts /\ content[f].ts < end) =>
              /\ Cardinality(Early(returned)) = 1
              /\ \A k \in Early(returned) : returned[k] = content[f - 1]
        /\ (f > 0 /\ content[f].ts = start) => Early(returned) = {}

\* The carry-over was taken although earlier entries precede it.
C3_Witness ==
    /\ Done
    /\ FirstFromStart > 2
    /\ content[FirstFromStart].ts > start
    /\ content[FirstFromStart].ts < end
    /\ content[1] # content[FirstFromStart - 1]
    /\ Early(returned) # {}

\* C4: no returned entry has the timestamp day_end.
C4_NeverDayEnd == Done => OnEnd(returned) = {}

\* The input holds an entry at day_end after entries of the window.
C4_Witness ==
    /\ Done
    /\ OnEnd(content) # {}
    /\ InWindow(returned) # {}

\* C5: the returned tuple is ascending by the timestamps of its names.
C5_AscendingByTimestamp ==
    Done =>
        \A j, k \in 1 .. Len(returned) :
            j < k => extract_datetime(returned[j]) <= extract_datetime(returned[k])

\* The for loop of apply as a function of the input still to be read, the
\* results so far and the previous entry.
RECURSIVE scan(_, _, _)
scan(cont, res, prev) ==
    IF cont = <<>> THEN res
    ELSE LET e == Head(cont)
             cur == extract_datetime(e)
         IN  IF cur = start THEN scan(Tail(cont), Append(res, e), prev)
             ELSE IF start < cur /\ cur < end
                  THEN scan(Tail(cont),
                            IF res = <<>> /\ prev # EmptyName
                            THEN <<prev, e>>
                            ELSE Append(res, e),
                            prev)
             ELSE IF cur = end THEN res
             ELSE IF cur > end
                  THEN (IF res # <<>> THEN Append(res, e) ELSE res)
             ELSE scan(Tail(cont), res, e)

\* NamesByDate.apply(target, content) as a function of content.
NamesByDate_apply(cont) == sorted(scan(cont, <<>>, EmptyName))

\* The positions of the entries at or after day_end.
AtOrPastEnd(s) == {k \in 1 .. Len(s) : s[k].ts >= end}

\* The input up to and including its first entry at or after day_end.
UpToEnd(s) ==
    IF AtOrPastEnd(s) = {} THEN s
    ELSE SubSeq(s, 1, CHOOSE k \in AtOrPastEnd(s) : \A q \in AtOrPastEnd(s) : k <= q)

\* C18: the loop never goes past the first entry at or after day_end, and the
\* result is that of the input cut after that entry: inputs that agree up to
\* and including it give the same result.
C18_EarlyExitScan ==
    /\ \A k \in AtOrPastEnd(content) : idx <= k
    /\ Done => returned = NamesByDate_apply(UpToEnd(content))

\* The input goes on after an entry at day_end, with entries after day_end
\* that would be appended had the scan reached them.
C18_Witness ==
    /\ Done
    /\ returned # <<>>
    /\ \E k \in OnEnd(content) : \E q \in Late(content) : k < q
    /\ idx < Len(content)

\* ------------------------------------------------------ IndicesByDate.apply
\* The values a record's epoch and offset variables are drawn from.
Epochs == 0 .. 3
Offsets == 0 .. 2
UtcOffsets == {0, 1}

\* The target days of IndicesByDate.apply: a day with a day before and after.
TargetDays == {1}

\* The range (level) values and the refl rows of the record at position r:
\* every record carries its own range, every sample its own row.
RangeOf(r) == [k \in 1 .. r |-> 11 + 43 * k]
ReflOf(r, n) == [i \in 1 .. n |-> 100 * r + i]

\* Non-decreasing offset sequences, up to n long.
RECURSIVE OffsetSeqs(_)
OffsetSeqs(n) ==
    IF n = 0 THEN {<<>>}
    ELSE LET shorter == OffsetSeqs(n - 1)
         IN  shorter \cup
             UNION { { Append(s, o) :
                         o \in {x \in Offsets : Len(s) = 0 \/ s[Len(s)] <= x} } :
                     s \in {p \in shorter : Len(p) = n - 1} }

\* Dimension(name=..., size=...)
Dimension(name, size) == [name |-> name, size |-> size]

\* Variable(dimensions=..., units=..., values=...)
Variable(dimensions, units, values) ==
    [dimensions |-> dimensions, units |-> units, values |-> values]

\* The InstrumentData a raw file is hydrated to: epoch, offset, range, refl.
Hydrated(r, epoch, offset) ==
    LET time == Dimension("time", Len(offset))
        level == Dimension("level", r)
    IN  [dimensions |-> [d \in {"time", "level"} |->
                            IF d = "time" THEN time ELSE level],
         variables |->
            [n \in {"epoch", "offset", "range", "refl"} |->
                CASE n = "epoch" -> Variable(<<>>, "seconds", epoch)
                  [] n = "offset" -> Variable(<<time>>, "seconds", offset)
                  [] n = "range" -> Variable(<<level>>, "meters", RangeOf(r))
                  [] n = "refl" ->
                        Variable(<<time, level>>, "dBZ", ReflOf(r, Len(offset)))]]

\* The shapes of a hydrated record: with time and level only, or also with
\* an angle dimension and a dimension outside time, level and angle.
Shapes == {"narrow", "wide"}

\* A record in one of the shapes. The wide one has an azimuth along angle, a
\* power along time, beam and level, and other units for refl.
Shaped(data, shape) ==
    IF shape = "narrow" THEN data
    ELSE LET time == data.dimensions["time"]
             level == data.dimensions["level"]
             angle == Dimension("angle", 2)
             beam == Dimension("beam", 1)
         IN  [dimensions |->
                [d \in {"time", "level", "angle", "beam"} |->
                    CASE d = "angle" -> angle
                      [] d = "beam" -> beam
                      [] OTHER -> data.dimensions[d]],
              variables |->
                [n \in DOMAIN data.variables \cup {"azimuth", "power"} |->
                    CASE n = "azimuth" -> Variable(<<angle>>, "degrees", <<0, 90>>)
                      [] n = "power" ->
                            Variable(<<time, beam, level>>, "dB",
                                     [i \in 1 .. time.size |-> 7 * i])
                      [] n = "refl" ->
                            [data.variables[n] EXCEPT !.units = "dB"]
                      [] OTHER -> data.variables[n]]]

\* A record without one of its variables.
Lacking(data, name) ==
    [data EXCEPT !.variables =
        [n \in DOMAIN data.variables \ {name} |-> data.variables[n]]]

\* The variables IndicesByDate.apply reads by name.
Required == {"epoch", "offset", "range"}

\* The number of samples in the first n of some offset sequences.
RECURSIVE TotalSamples(_, _)
TotalSamples(os, n) ==
    IF n = 0 THEN 0 ELSE Len(os[n]) + TotalSamples(os, n - 1)

\* Every name a variable can have; var_values is a defaultdict(list), so a
\* name never assigned reads as the empty list.
VarNames == {"epoch", "offset", "range", "refl", "azimuth", "power"}

\* datetime.fromtimestamp(t): the naive local wall-clock time of a POSIX time,
\* in a time zone whose UTC offset does not change over the timeline.
fromtimestamp(t) == t + utcoffset

\* naive.timestamp(): the POSIX time of a naive local wall-clock time.
timestamp(w) == w - utcoffset

\* naive.date(): the calendar day a wall-clock time lies in.
date(w) == w \div SlotsPerDay

\* any(mask) with a slip: only the first entry is looked at.
any_FirstOnly(mask) == Len(mask) > 0 /\ mask[1]

\* any(mask)
any(mask) == \E i \in 1 .. Len(mask) : mask[i]

\* tuple(value for flag, value in zip(mask, values) if flag)
RECURSIVE compress(_, _)
compress(mask, values) ==
    IF mask = <<>> \/ values = <<>> THEN <<>>
    ELSE (IF Head(mask) THEN <<Head(values)>> ELSE <<>>)
         \o compress(Tail(mask), Tail(values))

\* _get_masks with a slip: the day is tested against the first offset only.
get_masks_FirstOffset(tgt, cont) ==
    [r \in 1 .. Len(cont) |->
        LET data == cont[r]
            initial == fromtimestamp(data.variables["epoch"].values)
        IN  [i \in 1 .. Len(data.variables["offset"].values) |->
                date(initial + data.variables["offset"].values[1]) = tgt]]

\* _get_masks with a slip: the day is that of the UTC calendar.
get_masks_Utc(tgt, cont) ==
    [r \in 1 .. Len(cont) |->
        LET data == cont[r]
            initial == data.variables["epoch"].values
        IN  [i \in 1 .. Len(data.variables["offset"].values) |->
                date(initial + data.variables["offset"].values[i]) = tgt]]

\* IndicesByDate._get_masks
get_masks(tgt, cont) ==
    [r \in 1 .. Len(cont) |->
        LET data == cont[r]
            initial == fromtimestamp(data.variables["epoch"].values)
        IN  [i \in 1 .. Len(data.variables["offset"].values) |->
                date(initial + data.variables["offset"].values[i]) = tgt]]

InitIndices ==
    /\ target \in TargetDays
    /\ utcoffset \in UtcOffsets
    /\ \E n \in 0 .. MaxRecords :
          \E os \in [1 .. n -> OffsetSeqs(MaxSamples)] :
             /\ TotalSamples(os, n) <= MaxSamples
             /\ \E es \in [1 .. n -> Epochs] :
                   records = [r \in 1 .. n |-> Hydrated(r, es[r], os[r])]
    /\ pc = "start"
    /\ masks = <<>>
    /\ var_values = [n \in VarNames |-> <<>>]
    /\ ridx = 0
    /\ new_data = [kind |-> "unset"]
    /\ content = <<>>
    /\ idx = 0
    /\ results = <<>>
    /\ previous_entry = EmptyName
    /\ returned = <<>>
    /\ ServiceIdle

\* _get_masks reads data.variables["epoch"] and data.variables["offset"] of
\* every record.
MasksReadable(cont) ==
    \A r \in 1 .. Len(cont) : {"epoch", "offset"} \subseteq DOMAIN cont[r].variables

\* masks = self._get_masks(target, content)
GetMasks ==
    /\ pc = "start"
    /\ MasksReadable(records)
    /\ masks' = get_masks(target, records)
    /\ pc' = "masks"
    /\ UNCHANGED <<target, utcoffset, records, var_values, ridx, new_data,
                   namesVars, serviceVars>>

\* masks = self._get_masks(target, content), a record without epoch or
\* offset: the KeyError leaves apply.
GetMasksKeyError ==
    /\ pc = "start"
    /\ ~ MasksReadable(records)
    /\ new_data' = [kind |-> "KeyError"]
    /\ pc' = "raised"
    /\ UNCHANGED <<target, utcoffset, records, masks, var_values, ridx,
                   namesVars, serviceVars>>

\* if not any(any(m) for m in masks): return None
ReturnNone ==
    /\ pc = "masks"
    /\ ~ \E r \in 1 .. Len(masks) : any(masks[r])
    /\ new_data' = [kind |-> "None"]
    /\ pc' = "done"
    /\ UNCHANGED <<target, utcoffset, records, masks, var_values, ridx,
                   namesVars, serviceVars>>

\* A variable that is scalar or whose leading dimension is not time.
NotTimeIndexed(var) ==
    \/ var.dimensions = <<>>
    \/ var.dimensions # <<>> /\ var.dimensions[1].name # "time"

\* FirstSelected with a slip: the break is missing, the last record whose
\* mask has a True entry is the one that stays.
FirstSelected_Last ==
    CHOOSE r \in 1 .. Len(masks) :
        /\ any(masks[r])
        /\ \A q \in (r + 1) .. Len(masks) : ~ any(masks[q])

\* FirstSelected with a slip: the first record, whatever its mask.
FirstSelected_FirstRecord ==
    CHOOSE r \in 1 .. Len(masks) : \A q \in 1 .. Len(masks) : r <= q

\* The first record whose mask has a True entry.
FirstSelected ==
    CHOOSE r \in 1 .. Len(masks) :
        /\ any(masks[r])
        /\ \A q \in 1 .. (r - 1) : ~ any(masks[q])

\* The first loop: the values of the variables that are not time-indexed are
\* those of the first record whose mask has a True entry.
CollectNotTimeIndexed ==
    /\ pc = "masks"
    /\ \E r \in 1 .. Len(masks) : any(masks[r])
    /\ LET data == records[FirstSelected]
       IN  var_values' =
              [n \in VarNames |->
                  IF n \in DOMAIN data.variables
                     /\ NotTimeIndexed(data.variables[n])
                  THEN data.variables[n].values
                  ELSE var_values[n]]
    /\ ridx' = 1
    /\ pc' = "time_indexed"
    /\ UNCHANGED <<target, utcoffset, records, masks, new_data, namesVars, serviceVars>>

\* Second loop, a record whose mask is all False: continue
SkipRecord ==
    /\ pc = "time_indexed"
    /\ ridx <= Len(records)
    /\ ~ any(masks[ridx])
    /\ ridx' = ridx + 1
    /\ UNCHANGED <<target, pc, utcoffset, records, masks, var_values, new_data,
                   namesVars, serviceVars>>

\* Re-basing with a slip: the record's own epoch is not used.
rebase_NoEpoch(data, v) == v

\* int((initial + timedelta(seconds=offset)).timestamp() - var_values["epoch"])
rebase(data, v) ==
    timestamp(fromtimestamp(data.variables["epoch"].values) + v)
        - var_values["epoch"]

\* Selection with a slip: the mask is ignored, every sample is taken.
selected_All(mask, values) == values

\* The values of a record's variable at the indices where its mask is True.
selected(mask, values) == compress(mask, values)

\* Second loop, a record whose mask has a True entry: the selected values of
\* its time-indexed variables are appended, those in seconds re-based.
AppendTimeIndexed ==
    /\ pc = "time_indexed"
    /\ ridx <= Len(records)
    /\ any(masks[ridx])
    /\ LET data == records[ridx]
           mask == masks[ridx]
       IN  var_values' =
              [n \in VarNames |->
                  IF n \in DOMAIN data.variables
                     /\ ~ NotTimeIndexed(data.variables[n])
                  THEN LET var == data.variables[n]
                           picked == selected(mask, var.values)
                       IN  IF var.units = "seconds"
                           THEN var_values[n] \o
                                [k \in 1 .. Len(picked) |-> rebase(data, picked[k])]
                           ELSE var_values[n] \o picked
                  ELSE var_values[n]]
    /\ ridx' = ridx + 1
    /\ UNCHANGED <<target, pc, utcoffset, records, masks, new_data, namesVars, serviceVars>>

\* _get_data_dimensions with a slip: time keeps the size the source had.
data_dims_SourceSize(data) ==
    [d \in {q \in DOMAIN data.dimensions : q \in {"time", "level", "angle"}} |->
        CASE d = "time" -> Dimension("time", data.dimensions["time"].size)
          [] d = "level" -> Dimension("level", Len(var_values["range"]))
          [] d = "angle" -> Dimension("angle", 4)]

\* _get_data_dimensions: the dimensions of the last record, re-sized.
data_dims(data) ==
    [d \in {q \in DOMAIN data.dimensions : q \in {"time", "level", "angle"}} |->
        CASE d = "time" -> Dimension("time", Len(var_values["offset"]))
          [] d = "level" -> Dimension("level", Len(var_values["range"]))
          [] d = "angle" -> Dimension("angle", 4)]

\* _get_variable_dimensions with a slip: the new dimensions come out in the
\* reverse of the variable's own order.
RECURSIVE var_dims_Reversed(_, _)
var_dims_Reversed(dims, new) ==
    IF dims = <<>> THEN <<>>
    ELSE var_dims_Reversed(Tail(dims), new)
         \o (IF Head(dims).name \in {"time", "level", "angle"}
             THEN <<new[Head(dims).name]>>
             ELSE <<>>)

\* _get_variable_dimensions: the new dimensions in the variable's own order.
RECURSIVE var_dims(_, _)
var_dims(dims, new) ==
    IF dims = <<>> THEN <<>>
    ELSE (IF Head(dims).name \in {"time", "level", "angle"}
          THEN <<new[Head(dims).name]>>
          ELSE <<>>)
         \o var_dims(Tail(dims), new)

\* BuildData with a slip: the schema is taken from the first record whose
\* mask has a True entry.
BuildData_FirstSelected ==
    /\ pc = "time_indexed"
    /\ ridx > Len(records)
    /\ LET data == records[FirstSelected]
           new == data_dims(data)
       IN  new_data' =
              [kind |-> "InstrumentData",
               dimensions |-> new,
               variables |->
                  [n \in DOMAIN data.variables |->
                      Variable(var_dims(data.variables[n].dimensions, new),
                               data.variables[n].units,
                               var_values[n])]]
    /\ pc' = "done"
    /\ UNCHANGED <<target, utcoffset, records, masks, var_values, ridx,
                   namesVars, serviceVars>>

\* The rest of apply: dimensions and variables after the last record of the
\* input, values from var_values; return new_data.
BuildData ==
    /\ pc = "time_indexed"
    /\ ridx > Len(records)
    /\ LET data == records[Len(records)]
           new == data_dims(data)
       IN  new_data' =
              [kind |-> "InstrumentData",
               dimensions |-> new,
               variables |->
                  [n \in DOMAIN data.variables |->
                      Variable(var_dims(data.variables[n].dimensions, new),
                               data.variables[n].units,
                               var_values[n])]]
    /\ pc' = "done"
    /\ UNCHANGED <<target, utcoffset, records, masks, var_values, ridx,
                   namesVars, serviceVars>>

NextIndices ==
    \/ GetMasks
    \/ ReturnNone
    \/ CollectNotTimeIndexed
    \/ SkipRecord
    \/ AppendTimeIndexed
    \/ BuildData

SpecIndices == InitIndices /\ [][NextIndices]_vars

\* The epochs of the records of either shape: a file that starts on the day
\* before the target day and one that starts on or after it.
SchemaEpochs == {0, 3}

\* apply on records of either shape, in a time zone at UTC.
InitSchema ==
    /\ target \in TargetDays
    /\ utcoffset = 0
    /\ \E n \in 1 .. MaxRecords :
          \E os \in [1 .. n -> OffsetSeqs(MaxSamples)] :
             /\ TotalSamples(os, n) <= MaxSamples
             /\ \E es \in [1 .. n -> SchemaEpochs] :
                   \E shapes \in [1 .. n -> Shapes] :
                      records = [r \in 1 .. n |->
                                    Shaped(Hydrated(r, es[r], os[r]), shapes[r])]
    /\ pc = "start"
    /\ masks = <<>>
    /\ var_values = [n \in VarNames |-> <<>>]
    /\ ridx = 0
    /\ new_data = [kind |-> "unset"]
    /\ content = <<>>
    /\ idx = 0
    /\ results = <<>>
    /\ previous_entry = EmptyName
    /\ returned = <<>>
    /\ ServiceIdle

SpecSchema == InitSchema /\ [][NextIndices]_vars

\* apply on an input one record of which lacks one of the variables read by
\* name.
InitLacking ==
    /\ target \in TargetDays
    /\ utcoffset \in UtcOffsets
    /\ \E n \in 1 .. MaxRecords :
          \E os \in [1 .. n -> OffsetSeqs(MaxSamples)] :
             /\ TotalSamples(os, n) <= MaxSamples
             /\ \E es \in [1 .. n -> Epochs] :
                   LET whole == [r \in 1 .. n |-> Hydrated(r, es[r], os[r])]
                   IN  \E r \in 1 .. n : \E name \in Required :
                          records = [whole EXCEPT ![r] = Lacking(whole[r], name)]
    /\ pc = "start"
    /\ masks = <<>>
    /\ var_values = [n \in VarNames |-> <<>>]
    /\ ridx = 0
    /\ new_data = [kind |-> "unset"]
    /\ content = <<>>
    /\ idx = 0
    /\ results = <<>>
    /\ previous_entry = EmptyName
    /\ returned = <<>>
    /\ ServiceIdle

NextLacking ==
    \/ GetMasksKeyError
    \/ NextIndices

SpecLacking == InitLacking /\ [][NextLacking]_vars

\* ----------------------------------------- properties of IndicesByDate.apply
Returned == pc = "done" /\ new_data.kind # "unset"
ReturnedData == pc = "done" /\ new_data.kind = "InstrumentData"

\* The sample positions of record r, and those its mask selects.
Samples(r) == 1 .. Len(records[r].variables["offset"].values)
SomeTrue == \E r \in 1 .. Len(masks) : \E i \in 1 .. Len(masks[r]) : masks[r][i]

\* The number of True entries in the masks of the first n records.
RECURSIVE TrueCount(_)
TrueCount(n) ==
    IF n = 0 THEN 0
    ELSE TrueCount(n - 1) + Cardinality({i \in 1 .. Len(masks[n]) : masks[n][i]})

\* The selected samples of the first n records, in record order and in sample
\* order within a record, as <<record, index>> pairs.
RECURSIVE PickedUpTo(_, _)
PickedUpTo(r, i) ==
    IF r = 0 THEN <<>>
    ELSE IF i = 0
         THEN PickedUpTo(r - 1, IF r = 1 THEN 0 ELSE Len(masks[r - 1]))
         ELSE PickedUpTo(r, i - 1) \o (IF masks[r][i] THEN <<(<<r, i>>)>> ELSE <<>>)

Picked ==
    IF Len(masks) = 0 THEN <<>> ELSE PickedUpTo(Len(masks), Len(masks[Len(masks)]))

\* The value of a variable of the input at a <<record, index>> pair.
InputValue(name, p) == records[p[1]].variables[name].values[p[2]]

\* The absolute time epoch_r + offset_r[i] of a <<record, index>> pair.
AbsoluteTime(p) == records[p[1]].variables["epoch"].values + InputValue("offset", p)

\* C6: the call returns None exactly when no mask has a True entry, the empty
\* input included, and returns an InstrumentData when some entry is True.
C6_NoneIffNothingSelected ==
    Returned =>
        /\ new_data.kind = "None" <=> ~ SomeTrue
        /\ SomeTrue => new_data.kind = "InstrumentData"
        /\ records = <<>> => new_data.kind = "None"

\* Records with samples, none of the target day: None is returned.
C6_Witness ==
    /\ Returned
    /\ Len(records) = MaxRecords
    /\ \A r \in 1 .. Len(records) : Samples(r) # {}
    /\ new_data.kind = "None"

\* C7: the size of the returned time dimension is the number of True mask
\* entries, which is also the length of the returned offset values.
C7_TimeSizeIsSelectedCount ==
    ReturnedData =>
        /\ new_data.dimensions["time"].size = TrueCount(Len(masks))
        /\ Len(new_data.variables["offset"].values) = TrueCount(Len(masks))

\* A single True entry among the samples of several records: time size 1.
C7_Witness ==
    /\ ReturnedData
    /\ Len(records) >= 2
    /\ \A r \in 1 .. Len(records) : Samples(r) # {}
    /\ \E r \in 1 .. Len(records) : Cardinality(Samples(r)) >= 2
    /\ TrueCount(Len(masks)) = 1
    /\ new_data.dimensions["time"].size = 1

\* C8: the returned values of a time-indexed variable that is not in seconds
\* (refl) are the selected input values, each once, in record order.
C8_CompressAndConcatenate ==
    ReturnedData =>
        /\ Len(new_data.variables["refl"].values) = Len(Picked)
        /\ \A k \in 1 .. Len(Picked) :
              new_data.variables["refl"].values[k] = InputValue("refl", Picked[k])

\* Samples are selected from two records, one of which also has a sample
\* that is not selected.
C8_Witness ==
    /\ ReturnedData
    /\ Len(records) >= 2
    /\ \A r \in 1 .. 2 : \E i \in Samples(r) : masks[r][i]
    /\ \E r \in 1 .. 2 : \E i \in Samples(r) : ~ masks[r][i]

AllPairs ==
    {p \in (1 .. Len(records)) \X (1 .. MaxSamples) : p[2] \in Samples(p[1])}
Precedes(p, q) == p[1] < q[1] \/ (p[1] = q[1] /\ p[2] < q[2])

\* The absolute times are strictly increasing along the whole timeline.
StrictTimeline ==
    \A p, q \in AllPairs : Precedes(p, q) => AbsoluteTime(p) < AbsoluteTime(q)

\* A sample lies on the target day of the local calendar.
OnTargetDay(p) == date(fromtimestamp(AbsoluteTime(p))) = target

MasksReturned == pc \in {"masks", "time_indexed", "done"}

C21_NotTimeIndexedFromFirstSelected ==
    ReturnedData =>
        \E s \in 1 .. Len(records) :
            /\ \E i \in Samples(s) : masks[s][i]
            /\ \A q \in 1 .. (s - 1) : \A i \in Samples(q) : ~ masks[q][i]
            /\ \A n \in {"epoch", "range"} :
                  new_data.variables[n].values = records[s].variables[n].values

\* Two records with samples of the target day whose epoch and range differ.
C21_Witness ==
    /\ ReturnedData
    /\ Len(records) >= 2
    /\ \E i \in Samples(1) : masks[1][i]
    /\ \E i \in Samples(2) : masks[2][i]
    /\ records[1].variables["epoch"].values # records[2].variables["epoch"].values
    /\ records[1].variables["range"].values # records[2].variables["range"].values
    /\ new_data.variables["range"].values = records[1].variables["range"].values

\* The last record of the input: the one the output schema is taken from.
LastRecord == records[Len(records)]

\* The dimension names the output keeps.
Kept == {"time", "level", "angle"}

\* The dimensions of a variable whose names are kept, in the variable's order.
KeptOf(dims) == SelectSeq(dims, LAMBDA d : d.name \in Kept)

\* C22: the returned record has dimensions only among time, level and angle;
\* level has the length of the returned range values, angle has size 4 when
\* present, no other source dimension is present; the dimensions of each
\* returned variable are the new dimension objects in the order of the kept
\* dimensions of the source variable.
C22_ClosedDimensions ==
    ReturnedData =>
        LET dims == new_data.dimensions IN
        /\ DOMAIN dims = DOMAIN LastRecord.dimensions \cap Kept
        /\ "level" \in DOMAIN dims =>
              dims["level"] =
                  Dimension("level", Len(new_data.variables["range"].values))
        /\ "angle" \in DOMAIN dims => dims["angle"] = Dimension("angle", 4)
        /\ \A n \in DOMAIN new_data.variables :
              LET source == KeptOf(LastRecord.variables[n].dimensions)
              IN  new_data.variables[n].dimensions =
                      [k \in 1 .. Len(source) |-> dims[source[k].name]]

\* The last record is wide: angle and beam among its dimensions, a variable
\* along time, beam and level; samples are selected from a narrow record
\* before it.
C22_Witness ==
    /\ ReturnedData
    /\ Len(records) >= 2
    /\ DOMAIN records[1].dimensions = {"time", "level"}
    /\ \E i \in Samples(1) : masks[1][i]
    /\ "beam" \in DOMAIN LastRecord.dimensions
    /\ "beam" \notin DOMAIN new_data.dimensions
    /\ new_data.dimensions["angle"].size = 4
    /\ Len(new_data.variables["power"].dimensions) = 2
    /\ new_data.variables["power"].dimensions[1].name = "time"

\* C30: the variable names of the returned record, the units of each
\* variable (as its dtype, scale and long_name) and the dimension names the
\* record can have are those of the last record of the input, also when the
\* mask of that record is all False.
C30_SchemaOfLastRecord ==
    ReturnedData =>
        /\ DOMAIN new_data.variables = DOMAIN LastRecord.variables
        /\ \A n \in DOMAIN new_data.variables :
              new_data.variables[n].units = LastRecord.variables[n].units
        /\ DOMAIN new_data.dimensions \subseteq DOMAIN LastRecord.dimensions
        /\ \A d \in Kept :
              d \in DOMAIN LastRecord.dimensions => d \in DOMAIN new_data.dimensions

\* The samples come from a wide record; the last record is narrow and none
\* of its samples is selected: power and azimuth are not returned, refl has
\* the units of the last record.
C30_Witness ==
    /\ ReturnedData
    /\ Len(records) >= 2
    /\ "power" \in DOMAIN records[1].variables
    /\ \E i \in Samples(1) : masks[1][i]
    /\ Samples(Len(records)) # {}
    /\ \A i \in Samples(Len(records)) : ~ masks[Len(records)][i]
    /\ "power" \notin DOMAIN new_data.variables
    /\ "angle" \notin DOMAIN new_data.dimensions
    /\ new_data.variables["refl"].units # records[1].variables["refl"].units

\* The call has ended, by a return or by an exception.
Ended == pc \in {"done", "raised"} /\ new_data.kind # "unset"

\* A record of the input lacks the variable.
SomeLacks(name) ==
    \E r \in 1 .. Len(records) : name \notin DOMAIN records[r].variables

\* C17: when a record of the input lacks epoch, offset or range the call ends
\* in an error; it returns neither a record nor None.
C17_MissingVariableIsError ==
    (Ended /\ \E name \in Required : SomeLacks(name)) => new_data.kind = "KeyError"

\* ------------------------------------ ObservationManager.create_daily_masks
\* DType.I1.min, the flag value of a mask.
I1_MIN == -128

\* The reflectivities of a daily file, either side of the radar threshold 10,
\* and the values a cloud mask can hold.
ReflValues == {5, 15}
MaskValues == {I1_MIN, 0, 1}

\* The offsets of the samples of a daily file: one every 10 seconds.
DailyOffsets(n) == [k \in 1 .. n |-> 10 * (k - 1)]

\* The InstrumentData a daily file is hydrated to: its refl holds one row per
\* time sample and one value per level.
DailyRecord(refl) ==
    LET time == Dimension("time", Len(refl))
        level == Dimension("level", Len(refl[1]))
    IN  [dimensions |-> [d \in {"time", "level"} |->
                            IF d = "time" THEN time ELSE level],
         variables |->
            [n \in {"epoch", "offset", "range", "refl"} |->
                CASE n = "epoch" -> Variable(<<>>, "seconds", 0)
                  [] n = "offset" ->
                        Variable(<<time>>, "seconds", DailyOffsets(Len(refl)))
                  [] n = "range" ->
                        Variable(<<level>>, "meters", RangeOf(Len(refl[1])))
                  [] n = "refl" -> Variable(<<time, level>>, "dBZ", refl)]]

\* The daily files of the month: up to MaxRows time samples of one level.
DailyRecords ==
    UNION { { DailyRecord(refl) : refl \in [1 .. t -> [1 .. 1 -> ReflValues]] } :
            t \in 1 .. MaxRows }

\* transformation_engine.get_mask(mask_request): the engine is not part of
\* the sources at hand; its result is any mask of the shape of the values.
get_mask(values) ==
    [1 .. Len(values) -> [1 .. Len(values[1]) -> MaskValues]]

\* The days of the month, as _dates_in_month yields them.
InLoopOverDays == pc = "days" /\ target <= MaxDays

InitMasks ==
    /\ target = 1
    /\ pc = "days"
    /\ ServiceIdle
    /\ content = <<>>
    /\ idx = 0
    /\ results = <<>>
    /\ previous_entry = EmptyName
    /\ returned = <<>>
    /\ utcoffset = 0
    /\ records = <<>>
    /\ masks = <<>>
    /\ var_values = <<>>
    /\ ridx = 0
    /\ new_data = [kind |-> "unset"]

\* print(target); nothing is selected or hydrated for the day: continue
NothingForDay ==
    /\ InLoopOverDays
    /\ printed' = Append(printed, target)
    /\ target' = target + 1
    /\ UNCHANGED <<pc, day_data, row, col, mask_grid, result, local_file,
                   stored, namesVars, indicesVars>>

\* print(target); data = results[0], the daily file of the day
MasksHydrate ==
    /\ InLoopOverDays
    /\ printed' = Append(printed, target)
    /\ \E data \in DailyRecords : day_data' = data
    /\ pc' = "mask"
    /\ UNCHANGED <<target, row, col, mask_grid, result, local_file, stored,
                   namesVars, indicesVars>>

\* data.variables["cloud_mask"] = Variable(...): the key is added to the
\* variables of the hydrated record itself, and that record is serialized.
MasksApply ==
    /\ pc = "mask"
    /\ \E mask \in get_mask(day_data.variables["refl"].values) :
          LET values == day_data.variables["refl"].values
              cloud_mask ==
                  Variable(<<Dimension("time", Len(values)),
                             Dimension("level", Len(values[1]))>>,
                           "none", mask)
          IN  day_data' =
                 [day_data EXCEPT !.variables =
                     [n \in DOMAIN day_data.variables \cup {"cloud_mask"} |->
                         IF n = "cloud_mask" THEN cloud_mask
                         ELSE day_data.variables[n]]]
    /\ local_file' = day_data'
    /\ pc' = "persist"
    /\ UNCHANGED <<target, printed, row, col, mask_grid, result, stored,
                   namesVars, indicesVars>>

\* add_blob(...); os.remove(filepath); on to the next day
Persist ==
    /\ pc = "persist"
    /\ stored' = stored \cup {target}
    /\ local_file' = NoData
    /\ day_data' = NoData
    /\ target' = target + 1
    /\ pc' = "days"
    /\ UNCHANGED <<printed, row, col, mask_grid, result, namesVars, indicesVars>>

\* The loop over the days is exhausted: the call returns.
ReturnFromLoop ==
    /\ pc = "days"
    /\ target > MaxDays
    /\ pc' = "returned"
    /\ UNCHANGED <<target, serviceVars, namesVars, indicesVars>>

NextMasks ==
    \/ NothingForDay
    \/ MasksHydrate
    \/ MasksApply
    \/ Persist
    \/ ReturnFromLoop

SpecMasks == InitMasks /\ [][NextMasks]_vars

\* C11: no core transform changes a record it was given: while the cloud-mask
\* step of create_daily_masks works on the hydrated record of the day, the
\* dimensions and variables of that record stay as they were hydrated.
C11_InputsNeverMutated == [][pc = "mask" => day_data' = day_data]_vars

\* ------------------------------------- ObservationManager.merge_daily_masks
\* OFFSETS, STEPS and MIN_ELEVATION of the module.
OFFSETS == [time |-> 15, elevation |-> 45]
STEPS == [key \in DOMAIN OFFSETS |-> OFFSETS[key] * 2]
MIN_ELEVATION == 500

\* instruments.values() for Observatory.SHEBA, in insertion order, and the
\* instruments the match statements treat as lidars.
instruments == <<"DABUL", "MMCR">>
LidarClass == {"AHSRL", "DABUL", "MPL"}

\* The InstrumentData a daily mask file is hydrated to.
MaskRecord(cloud_mask, offset, range) ==
    LET time == Dimension("time", Len(offset))
        level == Dimension("level", Len(range))
    IN  [dimensions |-> [d \in {"time", "level"} |->
                            IF d = "time" THEN time ELSE level],
         variables |->
            [n \in {"epoch", "offset", "range", "cloud_mask"} |->
                CASE n = "epoch" -> Variable(<<>>, "seconds", 0)
                  [] n = "offset" -> Variable(<<time>>, "seconds", offset)
                  [] n = "range" -> Variable(<<level>>, "meters", range)
                  [] n = "cloud_mask" ->
                        Variable(<<time, level>>, "none", cloud_mask)]]

\* Mask values in non-decreasing order, 1 to n of them: a cell is decided by
\* the size, the mean and the flags of a window, not by the order within it.
RECURSIVE MaskRuns(_)
MaskRuns(n) ==
    IF n = 1 THEN { <<v>> : v \in MaskValues }
    ELSE LET shorter == MaskRuns(n - 1)
         IN  shorter \cup
             UNION { { Append(s, v) : v \in {x \in MaskValues : s[Len(s)] <= x} } :
                     s \in {q \in shorter : Len(q) = n - 1} }

\* The lidar masks: one level at 540 m, a sample every 3 seconds.
LidarRecords ==
    { MaskRecord([k \in 1 .. Len(s) |-> <<s[k]>>],
                 [k \in 1 .. Len(s) |-> 3 * (k - 1)],
                 <<540>>) : s \in MaskRuns(MaxLidar) }

\* The radar masks: levels at 450 m and 540 m, each sample with one value on
\* both levels, at some of the times 0, 10 and 30 seconds; or one sample at
\* 15 seconds with levels at 495 m and 540 m, on the edge between two cells.
RadarIndexes == {<<0>>, <<15>>, <<30>>, <<0, 10>>, <<0, 10, 30>>}
RadarLevels(ix) == IF ix = <<15>> THEN <<495, 540>> ELSE <<450, 540>>
RadarRecords ==
    UNION { { MaskRecord([k \in 1 .. Len(ix) |-> <<v[k], v[k]>>], ix, RadarLevels(ix)) :
                v \in [1 .. Len(ix) -> MaskValues] } :
            ix \in RadarIndexes }

\* pd.DataFrame(values, index=..., columns=...)
DataFrame(values, index, columns) ==
    [values |-> values, index |-> index, columns |-> columns]

\* The DataFrame of an instrument's cloud mask.
dataframes(inst) ==
    LET instrument_data == day_data[inst]
    IN  DataFrame(instrument_data.variables["cloud_mask"].values,
                  instrument_data.variables["offset"].values,
                  instrument_data.variables["range"].values)

\* max(...) and min(...) of a sequence or set of numbers.
MaxOf(s) == CHOOSE x \in {s[k] : k \in 1 .. Len(s)} :
                \A k \in 1 .. Len(s) : s[k] <= x
MinOf(S) == CHOOSE x \in S : \A y \in S : x <= y

\* list(range(0, stop, step))
RangeList(stop, step) ==
    [k \in 1 .. ((stop + step - 1) \div step) |-> (k - 1) * step]

max_elevation ==
    MinOf({ MaxOf(dataframes(instruments[k]).columns) : k \in 1 .. Len(instruments) })
times == RangeList(DaySeconds + 1, STEPS.time)
elevations == RangeList(max_elevation + 1, STEPS.elevation)

\* The window with a slip: the upper edges belong to the box too.
Window_Closed(inst, time, elevation) ==
    LET df == dataframes(inst)
    IN  { p \in (1 .. Len(df.index)) \X (1 .. Len(df.columns)) :
            /\ time - OFFSETS.time <= df.index[p[1]]
            /\ df.index[p[1]] <= time + OFFSETS.time
            /\ elevation - OFFSETS.elevation <= df.columns[p[2]]
            /\ df.columns[p[2]] <= elevation + OFFSETS.elevation }

\* The <<row, column>> positions of an instrument's DataFrame that
\* selected_times and selected_elevations pick for a cell.
Window(inst, time, elevation) ==
    LET df == dataframes(inst)
    IN  { p \in (1 .. Len(df.index)) \X (1 .. Len(df.columns)) :
            /\ time - OFFSETS.time <= df.index[p[1]]
            /\ df.index[p[1]] < time + OFFSETS.time
            /\ elevation - OFFSETS.elevation <= df.columns[p[2]]
            /\ df.columns[p[2]] < elevation + OFFSETS.elevation }

\* values[inst].size
sizes(inst, time, elevation) == Cardinality(Window(inst, time, elevation))

\* DType.I1.min in values[inst].values
HasFlag(inst, time, elevation) ==
    \E p \in Window(inst, time, elevation) :
        dataframes(inst).values[p[1]][p[2]] = I1_MIN

\* The sum of the values at some positions of a DataFrame, every flag first
\* replaced by `flag`.
RECURSIVE SumAt(_, _, _)
SumAt(df, cells, flag) ==
    IF cells = {} THEN 0
    ELSE LET p == CHOOSE q \in cells : TRUE
             v == df.values[p[1]][p[2]]
         IN  (IF v = I1_MIN THEN flag ELSE v) + SumAt(df, cells \ {p}, flag)

\* The test with a slip: the mean has to be above one half.
AtLeastHalf_Strict(inst, time, elevation) ==
    LET w == Window(inst, time, elevation)
    IN  w # {} /\ 2 * SumAt(dataframes(inst), w, I1_MIN) > Cardinality(w)

\* ONE_HALF <= values[inst].mean().mean(): the mean of the column means of a
\* rectangular window is the mean of its values; that of an empty window is
\* NaN, which compares False.
AtLeastHalf(inst, time, elevation) ==
    LET w == Window(inst, time, elevation)
    IN  w # {} /\ 2 * SumAt(dataframes(inst), w, I1_MIN) >= Cardinality(w)

\* The flag-replaced test with a slip: the flags are not replaced.
ReplacedAtLeastHalf_Raw(inst, time, elevation) ==
    LET w == Window(inst, time, elevation)
    IN  w # {} /\ 2 * SumAt(dataframes(inst), w, I1_MIN) >= Cardinality(w)

\* ONE_HALF <= values[inst].replace(DType.I1.min, 0).mean().mean()
ReplacedAtLeastHalf(inst, time, elevation) ==
    LET w == Window(inst, time, elevation)
    IN  w # {} /\ 2 * SumAt(dataframes(inst), w, 0) >= Cardinality(w)

\* The first instrument of the dict, in order, among those that pass a test:
\* the `for ...: if ...: ...; break` loops.
FirstWith(passing) ==
    instruments[CHOOSE k \in 1 .. Len(instruments) :
                    /\ instruments[k] \in passing
                    /\ \A q \in 1 .. (k - 1) : instruments[q] \notin passing]

\* The keys of the dict of instruments.
InstrumentKeys == {instruments[k] : k \in 1 .. Len(instruments)}

\* The pair with a slip: the case of the radar is missing from the match.
missing_pair_LidarOnly(inst) ==
    IF inst \in LidarClass THEN <<4, -4>> ELSE <<I1_MIN, I1_MIN>>

\* The pair with a slip: the pairs of the two classes are exchanged.
missing_pair_Swapped(inst) ==
    CASE inst \in LidarClass -> <<5, -5>>
      [] inst = "MMCR" -> <<4, -4>>
      [] OTHER -> <<I1_MIN, I1_MIN>>

\* CLOUD, NO_CLOUD for a cell where the window of `inst` is empty.
missing_pair(inst) ==
    CASE inst \in LidarClass -> <<4, -4>>
      [] inst = "MMCR" -> <<5, -5>>
      [] OTHER -> <<I1_MIN, I1_MIN>>

\* The pair with a slip: the codes of the two classes are exchanged.
flag_pair_Swapped(inst) ==
    CASE inst \in LidarClass -> <<1, -1>>
      [] inst = "MMCR" -> <<2, -2>>
      [] OTHER -> <<I1_MIN, I1_MIN>>

\* CLOUD, NO_CLOUD for a cell where the window of `inst` holds the flag.
flag_pair(inst) ==
    CASE inst \in LidarClass -> <<2, -2>>
      [] inst = "MMCR" -> <<1, -1>>
      [] OTHER -> <<I1_MIN, I1_MIN>>

\* The floor test with a slip: the floor lies one elevation step too low.
BelowFloor_OneStepLow(elevation) == elevation < MIN_ELEVATION - STEPS.elevation

\* if elevation < MIN_ELEVATION: continue
BelowFloor(elevation) == elevation < MIN_ELEVATION

\* The state after data = {...}: a lidar and a radar mask of the day.
InitMerge ==
    /\ target = 1
    /\ pc = "merge"
    /\ printed = <<1>>
    /\ \E lidar \in LidarRecords : \E radar \in RadarRecords :
          day_data = [inst \in {"DABUL", "MMCR"} |->
                         IF inst = "DABUL" THEN lidar ELSE radar]
    /\ row = 0
    /\ col = 0
    /\ mask_grid = <<>>
    /\ result = <<>>
    /\ local_file = NoData
    /\ stored = {}
    /\ content = <<>>
    /\ idx = 0
    /\ results = <<>>
    /\ previous_entry = EmptyName
    /\ returned = <<>>
    /\ utcoffset = 0
    /\ records = <<>>
    /\ masks = <<>>
    /\ var_values = <<>>
    /\ ridx = 0
    /\ new_data = [kind |-> "unset"]

\* mask = [[0 for _ in elevations] for _ in times]
SetUpMask ==
    /\ pc = "merge"
    /\ mask_grid' = [r \in 1 .. Len(times) |-> [c \in 1 .. Len(elevations) |-> 0]]
    /\ row' = 1
    /\ col' = 1
    /\ pc' = "cells"
    /\ UNCHANGED <<target, printed, day_data, result, local_file, stored,
                   namesVars, indicesVars>>

\* The cell the two loops are at.
InCells == pc = "cells" /\ row <= Len(times)
cell_time == times[row]
cell_elevation == elevations[col]

\* The loops move on to the next elevation, or to the next time.
NextCell ==
    IF col < Len(elevations)
    THEN col' = col + 1 /\ row' = row
    ELSE col' = 1 /\ row' = row + 1

\* mask[i][j] = code
SetCell(code) == mask_grid' = [mask_grid EXCEPT ![row][col] = code]

\* The tests of the if/elif chain at the cell.
AnySize == \E k \in 1 .. Len(instruments) :
               sizes(instruments[k], cell_time, cell_elevation) > 0
AllSizes == \A k \in 1 .. Len(instruments) :
                sizes(instruments[k], cell_time, cell_elevation) > 0
AnyFlag == \E k \in 1 .. Len(instruments) :
               HasFlag(instruments[k], cell_time, cell_elevation)
AllFlags == \A k \in 1 .. Len(instruments) :
                HasFlag(instruments[k], cell_time, cell_elevation)
AnyHalf == \E k \in 1 .. Len(instruments) :
               AtLeastHalf(instruments[k], cell_time, cell_elevation)
AllHalf == \A k \in 1 .. Len(instruments) :
               AtLeastHalf(instruments[k], cell_time, cell_elevation)

\* Which arm of the chain the cell takes.
arm ==
    IF BelowFloor(cell_elevation) THEN "floor"
    ELSE IF ~ AnySize THEN "missing all"
    ELSE IF AllFlags THEN "all flagged"
    ELSE IF ~ AllSizes THEN "some missing"
    ELSE IF AnyFlag THEN "some flagged"
    ELSE IF AllHalf THEN "all cloud"
    ELSE IF AnyHalf THEN "one cloud"
    ELSE "all clear"

\* mask[i][j] = CLOUD if any(ONE_HALF <= v.mean().mean() ...) else NO_CLOUD
resolve(pair) == IF AnyHalf THEN pair[1] ELSE pair[2]

\* if elevation < MIN_ELEVATION: continue
CellBelowFloor ==
    /\ InCells
    /\ arm = "floor"
    /\ NextCell
    /\ UNCHANGED <<target, pc, printed, day_data, mask_grid, result, local_file,
                   stored, namesVars, indicesVars>>

\* if not any(sizes.values()): mask[i][j] = -6
CellMissingAll ==
    /\ InCells
    /\ arm = "missing all"
    /\ SetCell(-6)
    /\ NextCell
    /\ UNCHANGED <<target, pc, printed, day_data, result, local_file, stored,
                   namesVars, indicesVars>>

\* elif all(DType.I1.min in df.values ...): 0 when no flag-replaced mean
\* reaches one half, else 1 or 2 after the first instrument that reaches it
CellAllFlagged ==
    /\ InCells
    /\ arm = "all flagged"
    /\ LET Reaches(inst) == ReplacedAtLeastHalf(inst, cell_time, cell_elevation)
       IN  IF ~ \E k \in 1 .. Len(instruments) : Reaches(instruments[k])
           THEN SetCell(0)
           ELSE LET instrument ==
                        FirstWith({inst \in InstrumentKeys : Reaches(inst)})
                IN  CASE instrument \in LidarClass -> SetCell(1)
                      [] instrument = "MMCR" -> SetCell(2)
                      [] OTHER -> UNCHANGED mask_grid
    /\ NextCell
    /\ UNCHANGED <<target, pc, printed, day_data, result, local_file, stored,
                   namesVars, indicesVars>>

\* elif not all(sizes.values()): the pair of the first empty instrument
CellSomeMissing ==
    /\ InCells
    /\ arm = "some missing"
    /\ LET Empty(inst) == sizes(inst, cell_time, cell_elevation) = 0
           instrument == FirstWith({inst \in InstrumentKeys : Empty(inst)})
       IN  SetCell(resolve(missing_pair(instrument)))
    /\ NextCell
    /\ UNCHANGED <<target, pc, printed, day_data, result, local_file, stored,
                   namesVars, indicesVars>>

\* elif any(DType.I1.min in df.values ...): the pair of the first flagged
\* instrument
CellSomeFlagged ==
    /\ InCells
    /\ arm = "some flagged"
    /\ LET Flagged(inst) == HasFlag(inst, cell_time, cell_elevation)
           instrument == FirstWith({inst \in InstrumentKeys : Flagged(inst)})
       IN  SetCell(resolve(flag_pair(instrument)))
    /\ NextCell
    /\ UNCHANGED <<target, pc, printed, day_data, result, local_file, stored,
                   namesVars, indicesVars>>

\* elif all(ONE_HALF <= i for i in means.values()): mask[i][j] = 3
CellAllCloud ==
    /\ InCells
    /\ arm = "all cloud"
    /\ SetCell(3)
    /\ NextCell
    /\ UNCHANGED <<target, pc, printed, day_data, result, local_file, stored,
                   namesVars, indicesVars>>

\* elif any(ONE_HALF <= i ...): 2 or 1 after the first instrument below
CellOneCloud ==
    /\ InCells
    /\ arm = "one cloud"
    /\ LET Below(inst) == ~ AtLeastHalf(inst, cell_time, cell_elevation)
           instrument == FirstWith({inst \in InstrumentKeys : Below(inst)})
       IN  CASE instrument \in LidarClass -> SetCell(2)
             [] instrument = "MMCR" -> SetCell(1)
             [] OTHER -> UNCHANGED mask_grid
    /\ NextCell
    /\ UNCHANGED <<target, pc, printed, day_data, result, local_file, stored,
                   namesVars, indicesVars>>

\* else: mask[i][j] = -3
CellAllClear ==
    /\ InCells
    /\ arm = "all clear"
    /\ SetCell(-3)
    /\ NextCell
    /\ UNCHANGED <<target, pc, printed, day_data, result, local_file, stored,
                   namesVars, indicesVars>>

\* The epoch of a day: DateTime(year, month, day, 0, 0, 0).unix
DayEpoch(d) == d * DaySeconds

\* instrument_data = InstrumentData(...); serialize_mask(...)
BuildMerged ==
    /\ pc = "cells"
    /\ row > Len(times)
    /\ LET time == Dimension("time", Len(times))
           level == Dimension("level", Len(elevations))
       IN  local_file' =
              [dimensions |-> [d \in {"time", "level"} |->
                                  IF d = "time" THEN time ELSE level],
               variables |->
                  [n \in {"epoch", "offset", "range", "cloud_mask"} |->
                      CASE n = "epoch" ->
                              Variable(<<>>, "seconds", DayEpoch(target))
                        [] n = "offset" -> Variable(<<time>>, "seconds", times)
                        [] n = "range" -> Variable(<<level>>, "meters", elevations)
                        [] n = "cloud_mask" ->
                              Variable(<<time, level>>, "none", mask_grid)]]
    /\ pc' = "persist"
    /\ UNCHANGED <<target, printed, day_data, row, col, mask_grid, result,
                   stored, namesVars, indicesVars>>

NextMerge ==
    \/ SetUpMask
    \/ CellBelowFloor
    \/ CellMissingAll
    \/ CellAllFlagged
    \/ CellSomeMissing
    \/ CellSomeFlagged
    \/ CellAllCloud
    \/ CellOneCloud
    \/ CellAllClear
    \/ BuildMerged
    \/ Persist

SpecMerge == InitMerge /\ [][NextMerge]_vars

\* --------------------------------------------- properties of the merged grid
\* The merge is under way or its record is written: the masks of the day are
\* at hand.
Merging == pc \in {"cells", "persist"}
Merged == pc = "persist"

\* The cells of the grid, and those the loops have passed.
GridCells == (1 .. Len(times)) \X (1 .. Len(elevations))
Passed(p) == Merged \/ p[1] < row \/ (p[1] = row /\ p[2] < col)

\* The codes of a merged mask.
ClosedSet == {-6, -5, -4, -3, -2, -1, 0, 1, 2, 3, 4, 5}

\* C12: every cell of the merged grid holds a code of the closed set -6 .. 5,
\* at every point of the merge and in the record written; the placeholder
\* DType.I1.min is never written to a cell.
C12_CodesInClosedSet ==
    Merging =>
        /\ \A p \in GridCells : mask_grid[p[1]][p[2]] \in ClosedSet
        /\ Merged =>
              \A p \in GridCells :
                  local_file.variables["cloud_mask"].values[p[1]][p[2]] \in ClosedSet

\* A merged grid with a cell resolved from the pair of a missing instrument
\* and a cell resolved from the pair of a flagged one.
C12_Witness ==
    /\ Merged
    /\ \E p \in GridCells : mask_grid[p[1]][p[2]] \in {4, -4, 5, -5}
    /\ \E p \in GridCells : mask_grid[p[1]][p[2]] \in {-2, -1}

\* C13: every cell of the merged grid whose elevation is below the floor of
\* 500 m holds the neutral code 0 at every time, whatever samples lie in its
\* window.
C13_BelowFloorNeutral ==
    Merging =>
        \A p \in GridCells :
            elevations[p[2]] < 500 =>
                /\ mask_grid[p[1]][p[2]] = 0
                /\ Merged =>
                      local_file.variables["cloud_mask"].values[p[1]][p[2]] = 0

\* A merged grid with a cell below the floor whose window holds a cloud sample
\* of the radar, and another whose window holds a flag.
C13_Witness ==
    /\ Merged
    /\ \E p \in GridCells :
          /\ elevations[p[2]] < 500
          /\ \E q \in Window("MMCR", times[p[1]], elevations[p[2]]) :
                dataframes("MMCR").values[q[1]][q[2]] = 1
          /\ mask_grid[p[1]][p[2]] = 0
    /\ \E p \in GridCells :
          /\ elevations[p[2]] < 500
          /\ HasFlag("MMCR", times[p[1]], elevations[p[2]])
          /\ mask_grid[p[1]][p[2]] = 0

\* The instruments whose window at a cell holds the flag.
FlaggedAt(p) ==
    {k \in 1 .. Len(instruments) :
        HasFlag(instruments[k], times[p[1]], elevations[p[2]])}

\* A cell above the floor where no instrument is missing and some, but not
\* all, windows hold the flag.
PartlyFlagged(p) ==
    /\ elevations[p[2]] >= 500
    /\ \A k \in 1 .. Len(instruments) :
          sizes(instruments[k], times[p[1]], elevations[p[2]]) > 0
    /\ FlaggedAt(p) # {}
    /\ FlaggedAt(p) # 1 .. Len(instruments)

\* Some instrument's window mean at a cell is at least one half.
SomeMeanHalf(p) ==
    \E k \in 1 .. Len(instruments) :
        AtLeastHalf(instruments[k], times[p[1]], elevations[p[2]])

\* C14: at a cell where no instrument is missing and some but not all windows
\* hold the flag, the code is 2 or -2 when the flagged instrument is the
\* lidar and 1 or -1 when it is the radar, positive exactly when some
\* instrument's window mean is at least one half; a lidar window of mean 0.8
\* without flags next to an all-flagged radar window gives 1, never 3.
C14_PartialFlagPair ==
    Merging =>
        \A p \in GridCells :
            (Passed(p) /\ PartlyFlagged(p)) =>
                LET code == mask_grid[p[1]][p[2]]
                    lidar == instruments[1] \in LidarClass /\ 1 \in FlaggedAt(p)
                IN  /\ lidar => code = (IF SomeMeanHalf(p) THEN 2 ELSE -2)
                    /\ ~ lidar => code = (IF SomeMeanHalf(p) THEN 1 ELSE -1)
                    /\ code # 3

\* The lidar window of a cell holds five samples of mean 0.8 and no flag, the
\* radar window holds flags only, and the cell is merged to 1.
C14_Witness ==
    /\ Merged
    /\ \E p \in GridCells :
          LET lidar == Window("DABUL", times[p[1]], elevations[p[2]])
              radar == Window("MMCR", times[p[1]], elevations[p[2]])
          IN  /\ PartlyFlagged(p)
              /\ Cardinality(lidar) = 5
              /\ SumAt(dataframes("DABUL"), lidar, I1_MIN) = 4
              /\ ~ HasFlag("DABUL", times[p[1]], elevations[p[2]])
              /\ Cardinality(radar) >= 2
              /\ \A q \in radar : dataframes("MMCR").values[q[1]][q[2]] = I1_MIN
              /\ mask_grid[p[1]][p[2]] = 1

\* The values in the window of instrument k at a cell.
WindowValues(k, p) ==
    LET inst == instruments[k]
    IN  { dataframes(inst).values[q[1]][q[2]] :
            q \in Window(inst, times[p[1]], elevations[p[2]]) }

\* The mean of the window of instrument k at a cell, every flag replaced by
\* `flag`, is at least one half.
MeanHalf(k, p, flag) ==
    LET inst == instruments[k]
        w == Window(inst, times[p[1]], elevations[p[2]])
    IN  w # {} /\ 2 * SumAt(dataframes(inst), w, flag) >= Cardinality(w)

Indexes == 1 .. Len(instruments)
AboveFloor(p) == elevations[p[2]] >= 500

\* Every window at a cell holds flags and nothing else.
OnlyFlags(p) == \A k \in Indexes : WindowValues(k, p) = {I1_MIN}

\* Every window at a cell holds a flag.
EveryFlagged(p) == \A k \in Indexes : I1_MIN \in WindowValues(k, p)

\* C23 as stated: rule b is the rule of a cell exactly when every window of
\* the cell holds flag values only.
C23_RuleOfOnlyFlags ==
    (InCells /\ AboveFloor(<<row, col>>)) =>
        (arm = "all flagged" <=> OnlyFlags(<<row, col>>))

\* C23 amended: rule b is the rule of a cell exactly when every window of the
\* cell holds a flag value; the cell is then 0 when no flag-replaced mean is
\* at least one half, else 1 when that of the lidar is, else 2.
C23_RuleOfEveryFlagged ==
    /\ (InCells /\ AboveFloor(<<row, col>>)) =>
          (arm = "all flagged" <=> EveryFlagged(<<row, col>>))
    /\ Merging =>
          \A p \in GridCells :
              (Passed(p) /\ AboveFloor(p) /\ EveryFlagged(p)) =>
                  mask_grid[p[1]][p[2]] =
                      (IF \A k \in Indexes : ~ MeanHalf(k, p, 0) THEN 0
                       ELSE LET first == CHOOSE k \in Indexes :
                                            /\ MeanHalf(k, p, 0)
                                            /\ \A q \in 1 .. (k - 1) :
                                                  ~ MeanHalf(q, p, 0)
                            IN  IF instruments[first] \in LidarClass
                                THEN 1 ELSE 2)

\* A merged grid with a cell whose windows all hold a flag next to cloud
\* samples: the lidar reaches one half there, or only the radar does.
C23_Witness ==
    /\ Merged
    /\ \E p \in GridCells :
          /\ AboveFloor(p)
          /\ EveryFlagged(p)
          /\ ~ OnlyFlags(p)
          /\ ~ MeanHalf(1, p, 0)
          /\ MeanHalf(2, p, 0)
          /\ mask_grid[p[1]][p[2]] = 2

\* The instruments without a sample in their window at a cell.
MissingAt(p) == {k \in Indexes : WindowValues(k, p) = {}}

\* C24: at a cell at or above the floor where some but not all instruments
\* have no sample in their window, the code is 4 or -4 when the missing
\* instrument is a lidar and 5 or -5 when it is the radar, positive exactly
\* when the window mean of some instrument is at least one half; where all
\* instruments have no sample the code is -6.
C24_MissingPair ==
    Merging =>
        \A p \in GridCells :
            (Passed(p) /\ AboveFloor(p)) =>
                LET code == mask_grid[p[1]][p[2]]
                    missing == MissingAt(p)
                    cloud == \E k \in Indexes : MeanHalf(k, p, I1_MIN)
                IN  /\ missing = Indexes => code = -6
                    /\ (missing # {} /\ missing # Indexes) =>
                          LET first == CHOOSE k \in missing :
                                           \A q \in missing : k <= q
                          IN  IF instruments[first] \in LidarClass
                              THEN code = (IF cloud THEN 4 ELSE -4)
                              ELSE code = (IF cloud THEN 5 ELSE -5)

\* A merged grid with a cell where the radar is missing and the lidar mean is
\* at least one half, and a cell where the lidar is missing and the radar
\* mean is below one half.
C24_Witness ==
    /\ Merged
    /\ \E p \in GridCells :
          /\ AboveFloor(p)
          /\ MissingAt(p) = {2}
          /\ mask_grid[p[1]][p[2]] = 5
    /\ \E p \in GridCells :
          /\ AboveFloor(p)
          /\ MissingAt(p) = {1}
          /\ mask_grid[p[1]][p[2]] = -4

\* C25: at a cell at or above the floor where every instrument has samples
\* and no window holds a flag, the code is 3 when all window means are at
\* least one half; when some but not all are, 2 if the mean of the lidar is
\* the one below and 1 if that of the radar is; -3 when all are below.
C25_MeansDecide ==
    Merging =>
        \A p \in GridCells :
            (/\ Passed(p)
             /\ AboveFloor(p)
             /\ \A k \in Indexes : WindowValues(k, p) # {}
             /\ \A k \in Indexes : I1_MIN \notin WindowValues(k, p)) =>
                LET code == mask_grid[p[1]][p[2]]
                    cloudy == {k \in Indexes : MeanHalf(k, p, I1_MIN)}
                IN  /\ cloudy = Indexes => code = 3
                    /\ cloudy = {} => code = -3
                    /\ (cloudy # {} /\ cloudy # Indexes) =>
                          LET below == CHOOSE k \in Indexes \ cloudy :
                                           \A q \in Indexes \ cloudy : k <= q
                          IN  IF instruments[below] \in LidarClass
                              THEN code = 2
                              ELSE code = 1

\* A cell where the radar mean is exactly one half and the lidar mean is
\* below it: the code is 2.
C25_Witness ==
    /\ Merged
    /\ \E p \in GridCells :
          /\ AboveFloor(p)
          /\ WindowValues(1, p) = {0}
          /\ WindowValues(2, p) = {0, 1}
          /\ MeanHalf(2, p, I1_MIN)
          /\ mask_grid[p[1]][p[2]] = 2

\* The <<row, column>> positions of the samples of instrument k.
SamplesOf(k) ==
    LET df == dataframes(instruments[k])
    IN  (1 .. Len(df.index)) \X (1 .. Len(df.columns))

\* The cells whose window holds a sample of instrument k.
CellsOf(k, q) ==
    {p \in GridCells : q \in Window(instruments[k], times[p[1]], elevations[p[2]])}

\* C29: the grid has a time every 30 from 0 to the end of the day and an
\* elevation every 90 from 0; the window of cell (t, e) is the half-open box
\* [t-15, t+15) x [e-45, e+45), and every sample with -15 <= time < last
\* grid time + 15 and -45 <= elevation < last grid elevation + 45 lies in the
\* window of exactly one cell.
C29_WindowsTileTheGrid ==
    Merged =>
        /\ \A r \in 1 .. Len(times) : times[r] = 30 * (r - 1)
        /\ times[Len(times)] <= DaySeconds /\ DaySeconds < times[Len(times)] + 30
        /\ \A c \in 1 .. Len(elevations) : elevations[c] = 90 * (c - 1)
        /\ \A k \in Indexes : \A q \in SamplesOf(k) :
              LET df == dataframes(instruments[k])
                  t == df.index[q[1]]
                  e == df.columns[q[2]]
              IN  /\ \A p \in GridCells :
                        q \in Window(instruments[k], times[p[1]], elevations[p[2]])
                            <=> /\ times[p[1]] - 15 <= t /\ t < times[p[1]] + 15
                                /\ elevations[p[2]] - 45 <= e
                                /\ e < elevations[p[2]] + 45
                  /\ (/\ -15 <= t /\ t < times[Len(times)] + 15
                      /\ -45 <= e /\ e < elevations[Len(elevations)] + 45) =>
                        Cardinality(CellsOf(k, q)) = 1

\* A radar sample on the edge between two cells, in time and in elevation:
\* it lies in the window of the later and the higher cell only.
C29_Witness ==
    /\ Merged
    /\ \E q \in SamplesOf(2) :
          LET df == dataframes("MMCR")
          IN  /\ df.index[q[1]] = times[1] + 15
              /\ df.columns[q[2]] = 495
              /\ \E c \in 1 .. Len(elevations) :
                    /\ elevations[c] = 540
                    /\ CellsOf(2, q) = {<<2, c>>}

\* --------------------------------- ObservationManager.extract_daily_extents
VERTICAL_RAIL == -10

\* The codes of the cells of a merged grid above the floor: clear by both,
\* not evaluated, cloud by one and cloud by both instruments.
ExtentCodes == {-3, 0, 1, 3}

\* The elevations of a merged grid: 0, 90, 180, ... as merge_daily_masks
\* writes them.
GridElevations == RangeList(STEPS.elevation * (MaxColumns - 1) + 1, STEPS.elevation)

\* The rows of a merged grid: 0 below the floor, any code above it.
GridRows ==
    LET above == {c \in 1 .. Len(GridElevations) :
                    GridElevations[c] >= MIN_ELEVATION}
    IN  { [c \in 1 .. Len(GridElevations) |->
              IF c \in above THEN codes[c] ELSE 0] :
          codes \in [above -> ExtentCodes] }

\* The merged masks of a day: one time row, or a row followed by a clear one.
MergedRecords ==
    { MaskRecord(<<r>>, <<0>>, GridElevations) : r \in GridRows }
    \cup { MaskRecord(<<r, [c \in 1 .. Len(GridElevations) |-> 0]>>,
                      <<0, STEPS.time>>, GridElevations) : r \in GridRows }

\* The variables extract_daily_extents reads from the record of the day.
ExtentsReads == {"cloud_mask", "offset", "range"}

\* MaskCode(bottom=..., top=...)
MaskCode(bottom, top) == [bottom |-> bottom, top |-> top]

\* VerticalTransition(elevation=..., code=...)
VerticalTransition(elevation, code) == [elevation |-> elevation, code |-> code]

\* VerticalLayers(datetime=..., bases=..., tops=...)
VerticalLayers(datetime, bases, tops) ==
    [datetime |-> datetime, bases |-> bases, tops |-> tops]

\* The DataFrame of the merged mask of the day.
dataframe ==
    DataFrame(day_data.variables["cloud_mask"].values,
              day_data.variables["offset"].values,
              day_data.variables["range"].values)

\* The loop over dataframe.columns[:-1] of time row i from column j on, acc
\* holding below, bases and tops so far.
RECURSIVE walk(_, _, _, _)
walk(df, i, j, acc) ==
    IF j > Len(df.columns) - 1 THEN acc
    ELSE LET elevation == df.columns[j]
             cur == df.values[i][j]
             above == df.values[i][j + 1]
         IN  IF elevation < MIN_ELEVATION THEN walk(df, i, j + 1, acc)
             ELSE walk(df, i, j + 1,
                       [below |-> cur,
                        bases |->
                           IF acc.below <= 0 /\ 0 < cur
                           THEN Append(acc.bases,
                                       VerticalTransition(
                                           elevation - OFFSETS.elevation,
                                           MaskCode(acc.below, cur)))
                           ELSE acc.bases,
                        tops |->
                           IF above <= 0 /\ 0 < cur
                           THEN Append(acc.tops,
                                       VerticalTransition(
                                           elevation + OFFSETS.elevation,
                                           MaskCode(cur, above)))
                           ELSE acc.tops])

\* The check of the top with a slip: the top is coded against a clear cell,
\* not against the rail.
top_of_profile_NoRail(acc, elevation, cur) ==
    [below |-> acc.below,
     bases |-> IF 0 < cur /\ acc.below <= 0
               THEN Append(acc.bases,
                           VerticalTransition(elevation - OFFSETS.elevation,
                                              MaskCode(acc.below, cur)))
               ELSE acc.bases,
     tops |-> IF 0 < cur
              THEN Append(acc.tops,
                          VerticalTransition(elevation + OFFSETS.elevation,
                                             MaskCode(cur, 0)))
              ELSE acc.tops]

\* The check of the top with a slip: no base is appended there.
top_of_profile_NoBase(acc, elevation, cur) ==
    [below |-> acc.below,
     bases |-> acc.bases,
     tops |-> IF 0 < cur
              THEN Append(acc.tops,
                          VerticalTransition(elevation + OFFSETS.elevation,
                                             MaskCode(cur, VERTICAL_RAIL)))
              ELSE acc.tops]

\* The check of the top with a slip: the base is appended without the test
\* of below.
top_of_profile_NoBelowTest(acc, elevation, cur) ==
    [below |-> acc.below,
     bases |-> IF 0 < cur
               THEN Append(acc.bases,
                           VerticalTransition(elevation - OFFSETS.elevation,
                                              MaskCode(acc.below, cur)))
               ELSE acc.bases,
     tops |-> IF 0 < cur
              THEN Append(acc.tops,
                          VerticalTransition(elevation + OFFSETS.elevation,
                                             MaskCode(cur, VERTICAL_RAIL)))
              ELSE acc.tops]

\* "Now, you're one away from the top": cur is the cell of the last column,
\* elevation is still that of the last column the loop went through.
top_of_profile(acc, elevation, cur) ==
    [below |-> acc.below,
     bases |-> IF 0 < cur /\ acc.below <= 0
               THEN Append(acc.bases,
                           VerticalTransition(elevation - OFFSETS.elevation,
                                              MaskCode(acc.below, cur)))
               ELSE acc.bases,
     tops |-> IF 0 < cur
              THEN Append(acc.tops,
                          VerticalTransition(elevation + OFFSETS.elevation,
                                             MaskCode(cur, VERTICAL_RAIL)))
              ELSE acc.tops]

\* The VerticalLayers of time row i of a DataFrame of two or more columns.
layers(df, i, base_time) ==
    LET n == Len(df.columns)
        looped == walk(df, i, 1,
                       [below |-> VERTICAL_RAIL, bases |-> <<>>, tops |-> <<>>])
        acc == top_of_profile(looped, df.columns[n - 1], df.values[i][n])
    IN  VerticalLayers(base_time + df.index[i], acc.bases, acc.tops)

\* The state before the loop over the days of the month.
InitExtents ==
    /\ target = 1
    /\ pc = "days"
    /\ ServiceIdle
    /\ content = <<>>
    /\ idx = 0
    /\ results = <<>>
    /\ previous_entry = EmptyName
    /\ returned = <<>>
    /\ utcoffset = 0
    /\ records = <<>>
    /\ masks = <<>>
    /\ var_values = <<>>
    /\ ridx = 0
    /\ new_data = [kind |-> "unset"]

\* print(target); data = results[0], the merged mask of the day, which may
\* come without its cloud_mask
ExtentsHydrate ==
    /\ InLoopOverDays
    /\ printed' = Append(printed, target)
    /\ \E data \in MergedRecords :
          \/ day_data' = data
          \/ day_data' = Lacking(data, "cloud_mask")
    /\ pc' = "frame"
    /\ UNCHANGED <<target, row, col, mask_grid, result, local_file, stored,
                   namesVars, indicesVars>>

\* data.variables["cloud_mask"] of a record without it: the KeyError leaves
\* the loop and the call.
ExtentsKeyError ==
    /\ pc = "frame"
    /\ ~ (ExtentsReads \subseteq DOMAIN day_data.variables)
    /\ pc' = "raised"
    /\ UNCHANGED <<target, serviceVars, namesVars, indicesVars>>

\* dataframe = pd.DataFrame(...); result = []
ExtentsFrame ==
    /\ pc = "frame"
    /\ ExtentsReads \subseteq DOMAIN day_data.variables
    /\ result' = <<>>
    /\ row' = 1
    /\ pc' = "rows"
    /\ UNCHANGED <<target, printed, day_data, col, mask_grid, local_file, stored,
                   namesVars, indicesVars>>

\* One time row: the walk up the columns, then result.append(VerticalLayers)
ExtentsRow ==
    /\ pc = "rows"
    /\ row <= Len(dataframe.index)
    /\ result' = Append(result, layers(dataframe, row, DayEpoch(target)))
    /\ row' = row + 1
    /\ UNCHANGED <<target, pc, printed, day_data, col, mask_grid, local_file,
                   stored, namesVars, indicesVars>>

\* pickle.dump(tuple(result), file)
ExtentsDump ==
    /\ pc = "rows"
    /\ row > Len(dataframe.index)
    /\ local_file' = result
    /\ pc' = "stats"
    /\ UNCHANGED <<target, printed, day_data, row, col, mask_grid, result,
                   stored, namesVars, indicesVars>>

\* add_blob(...); os.remove(filepath); on to the next day, which assigns the
\* locals of the loop anew before it reads them
ExtentsPersist ==
    /\ pc = "stats"
    /\ stored' = stored \cup {target}
    /\ local_file' = NoData
    /\ day_data' = NoData
    /\ result' = <<>>
    /\ row' = 0
    /\ target' = target + 1
    /\ pc' = "days"
    /\ UNCHANGED <<printed, col, mask_grid, namesVars, indicesVars>>

NextExtents ==
    \/ NothingForDay
    \/ ExtentsHydrate
    \/ ExtentsKeyError
    \/ ExtentsFrame
    \/ ExtentsRow
    \/ ExtentsDump
    \/ ExtentsPersist
    \/ ReturnFromLoop

SpecExtents == InitExtents /\ [][NextExtents]_vars

\* ------------------------------------ properties of extract_daily_extents
\* The elevations of a sequence of transitions are strictly increasing.
StrictlyUp(ts) ==
    \A j, k \in 1 .. Len(ts) : j < k => ts[j].elevation < ts[k].elevation

\* C15: in every time row the elevations of the bases are strictly increasing
\* in list order and so are those of the tops, the transitions of the
\* top-most column included.
C15_TransitionsStrictlyUp ==
    pc \in {"rows", "stats"} =>
        \A k \in 1 .. Len(result) :
            /\ StrictlyUp(result[k].bases)
            /\ StrictlyUp(result[k].tops)

\* A row with two bases and two tops, the last of each from the top-most
\* column: that column is cloud above a clear one.
C15_Witness ==
    /\ pc = "stats"
    /\ \E k \in 1 .. Len(result) :
          LET bases == result[k].bases
              tops == result[k].tops
              n == Len(dataframe.columns)
          IN  /\ dataframe.values[k][n] > 0
              /\ dataframe.values[k][n - 1] <= 0
              /\ Len(bases) >= 2
              /\ Len(tops) >= 2
              /\ tops[Len(tops)].code.top = VERTICAL_RAIL
              /\ bases[Len(bases)].code.top = dataframe.values[k][n]

\* The rows of the day the walk has been through, and the columns.
RowsDone == IF pc \in {"rows", "stats"} THEN 1 .. Len(result) ELSE {}
Columns == 1 .. Len(dataframe.columns)
TopMost == Len(dataframe.columns)

\* The code of a cell, and the value tracked as `below` when the walk is at
\* column c: the rail at the first column at or above the floor.
CodeAt(k, c) == dataframe.values[k][c]
BelowAt(k, c) ==
    IF c = 1 \/ dataframe.columns[c - 1] < 500
    THEN VERTICAL_RAIL
    ELSE CodeAt(k, c - 1)

\* A transition at an elevation is among some transitions.
RecordedAt(ts, elevation) == \E j \in 1 .. Len(ts) : ts[j].elevation = elevation

\* C26: for every column at or above the floor whose code is positive, the
\* top-most one included, a base is recorded exactly when the value below is
\* <= 0, at the centre of the column - 45 and with the code {bottom: below,
\* top: current}; a top is recorded exactly when the value above is <= 0 or
\* the column is the top-most one, at the centre of the column + 45.
C26_TransitionsAtTheColumn ==
    \A k \in RowsDone : \A c \in Columns :
        (dataframe.columns[c] >= 500 /\ CodeAt(k, c) > 0) =>
            LET centre == dataframe.columns[c]
                base == VerticalTransition(centre - 45,
                                           MaskCode(BelowAt(k, c), CodeAt(k, c)))
            IN  /\ BelowAt(k, c) <= 0 <=>
                      \E j \in 1 .. Len(result[k].bases) : result[k].bases[j] = base
                /\ (c = TopMost \/ CodeAt(k, IF c = TopMost THEN c ELSE c + 1) <= 0)
                      <=> RecordedAt(result[k].tops, centre + 45)

\* The transitions whose top code is the rail.
AgainstRail(ts) == {j \in 1 .. Len(ts) : ts[j].code.top = VERTICAL_RAIL}

\* C27: when the top-most column of a row holds a positive code, exactly one
\* top of the row has the rail as its top code, and the last base of the row
\* is the one of that column exactly when the value of the column beneath is
\* <= 0; when the top-most column is <= 0 no transition of the row has the
\* rail as its top code.
C27_TopAgainstRail ==
    \A k \in RowsDone :
        LET bases == result[k].bases
            tops == result[k].tops
            top_most == CodeAt(k, TopMost)
            beneath == CodeAt(k, TopMost - 1)
        IN  /\ top_most > 0 =>
                  /\ Cardinality(AgainstRail(tops)) = 1
                  /\ tops[Len(tops)].code = MaskCode(top_most, VERTICAL_RAIL)
                  /\ beneath <= 0 <=>
                        /\ Len(bases) > 0
                        /\ bases[Len(bases)].code = MaskCode(beneath, top_most)
            /\ top_most <= 0 => AgainstRail(tops) = {}
            /\ AgainstRail(bases) = {}

\* A row with cloud in the two top-most columns, and a row with cloud in the
\* top-most column only.
C27_Witness ==
    /\ pc = "stats"
    /\ \E k \in RowsDone :
          /\ CodeAt(k, TopMost) > 0
          /\ CodeAt(k, TopMost - 1) <= 0
          /\ Len(result[k].bases) >= 2
          /\ Cardinality(AgainstRail(result[k].tops)) = 1

\* C28: every row has as many bases as tops and the k-th base lies strictly
\* below the k-th top.
C28_BasesPairWithTops ==
    \A k \in RowsDone :
        /\ Len(result[k].bases) = Len(result[k].tops)
        /\ \A j \in 1 .. Len(result[k].bases) :
              result[k].bases[j].elevation < result[k].tops[j].elevation

\* A row with two runs of cloud, the upper one in the top-most column only.
C28_Witness ==
    /\ pc = "stats"
    /\ \E k \in RowsDone :
          /\ Len(result[k].bases) = 2
          /\ Len(result[k].tops) = 2
          /\ CodeAt(k, TopMost) > 0
          /\ CodeAt(k, TopMost - 1) <= 0
          /\ CodeAt(k, TopMost - 2) > 0

\* C16: a failure while one day is processed does not stop the batch: when
\* the call has ended, every day of the month has been processed.
C16_FailureDoesNotStopBatch ==
    pc \in {"returned", "raised"} =>
        \A d \in 1 .. MaxDays : \E k \in 1 .. Len(printed) : printed[k] = d

====
